---------------------------- MODULE Spec2Model ----------------------------
(***************************************************************************)
(* Fitness expense tracker (src/app.py): a Google-Sheets backed expense    *)
(* log.  The worksheet is a grid of text cells; add_expense writes one row *)
(* after the last occupied row, get_expenses reads every row, normalises   *)
(* it, parses date and amount, filters and sorts.                          *)
(*                                                                         *)
(* A Python str is a sequence of one-character strings, so that str(),     *)
(* strip(), lower(), the number formatting of a cell and the parsers are   *)
(* computed character by character.  Amounts are fixed-point numbers       *)
(* counted in hundredths.                                                  *)
(***************************************************************************)
EXTENDS Integers, Sequences, FiniteSets

(* ------------------------------ bounds -------------------------------- *)

\* Largest number of occupied worksheet rows the model lets the store grow to.
MaxRows == 3

(* --------------------------- string literals -------------------------- *)

EmptyStr == <<>>

\* Python's None, for an omitted description / notes / filter argument.
None == <<"<None>">>

S_date == <<"d","a","t","e">>
S_category == <<"c","a","t","e","g","o","r","y">>
S_description == <<"d","e","s","c","r","i","p","t","i","o","n">>
S_amount == <<"a","m","o","u","n","t">>
S_payment_method == <<"p","a","y","m","e","n","t","_","m","e","t","h","o","d">>
S_frequency == <<"f","r","e","q","u","e","n","c","y">>
S_notes == <<"n","o","t","e","s">>

COLUMNS == <<S_date, S_category, S_description, S_amount,
             S_payment_method, S_frequency, S_notes>>

S_All == <<"A","l","l">>
S_Protein == <<"P","r","o","t","e","i","n">>
S_Other == <<"O","t","h","e","r">>
S_UPI == <<"U","P","I">>
S_Cash == <<"C","a","s","h">>
S_OneTime == <<"O","n","e","-","t","i","m","e">>
S_Monthly == <<"M","o","n","t","h","l","y">>
S_Whey == <<"W","h","e","y">>
S_ok == <<"o","k">>

(* --------------------------- str primitives --------------------------- *)

Digits == <<"0","1","2","3","4","5","6","7","8","9">>

\* The value of each digit character.
DigitOf == [c \in {Digits[i] : i \in 1..10} |-> CHOOSE i \in 0..9 : Digits[i + 1] = c]

IsDigit(c) == c \in DOMAIN DigitOf

DigitVal(c) == DigitOf[c]

RECURSIVE NatToStr(_)
\* str(n) of a natural number.
NatToStr(n) ==
    IF n < 10 THEN <<Digits[n + 1]>>
    ELSE NatToStr(n \div 10) \o <<Digits[(n % 10) + 1]>>

RECURSIVE StrToNat(_)
\* int(s) of a non-empty digit string.
StrToNat(s) ==
    IF Len(s) = 0 THEN 0
    ELSE 10 * StrToNat(SubSeq(s, 1, Len(s) - 1)) + DigitVal(s[Len(s)])

AllDigits(s) == \A i \in 1..Len(s) : IsDigit(s[i])

RECURSIVE ZeroPad(_, _)
ZeroPad(s, width) == IF Len(s) >= width THEN s ELSE ZeroPad(<<"0">> \o s, width)

Upper == <<"A","B","C","D","E","F","G","H","I","J","K","L","M",
           "N","O","P","Q","R","S","T","U","V","W","X","Y","Z">>
Lower == <<"a","b","c","d","e","f","g","h","i","j","k","l","m",
           "n","o","p","q","r","s","t","u","v","w","x","y","z">>

\* The lower-case letter of each upper-case letter.
LowerOf == [c \in {Upper[i] : i \in 1..26} |-> Lower[CHOOSE i \in 1..26 : Upper[i] = c]]

LowerChar(c) == IF c \in DOMAIN LowerOf THEN LowerOf[c] ELSE c

\* str.lower()
StrLower(s) == [i \in 1..Len(s) |-> LowerChar(s[i])]

IsSpace(c) == c \in {" ", "\t", "\n"}

RECURSIVE LStrip(_)
LStrip(s) == IF Len(s) > 0 /\ IsSpace(s[1]) THEN LStrip(Tail(s)) ELSE s

RECURSIVE RStrip(_)
RStrip(s) ==
    IF Len(s) > 0 /\ IsSpace(s[Len(s)]) THEN RStrip(SubSeq(s, 1, Len(s) - 1)) ELSE s

\* str.strip()
StrStrip(s) == RStrip(LStrip(s))

(* ------------------------- dates and numbers -------------------------- *)

\* A datetime.date is <<year, month, day>>.
IsLeap(y) == (y % 4 = 0 /\ y % 100 # 0) \/ y % 400 = 0

DaysInMonth(y, m) ==
    IF m = 2 THEN (IF IsLeap(y) THEN 29 ELSE 28)
    ELSE IF m \in {4, 6, 9, 11} THEN 30 ELSE 31

\* str(date_val): ISO format YYYY-MM-DD.
DateStr(d) ==
    ZeroPad(NatToStr(d[1]), 4) \o <<"-">> \o ZeroPad(NatToStr(d[2]), 2)
        \o <<"-">> \o ZeroPad(NatToStr(d[3]), 2)

\* A Timestamp is the integer yyyymmdd (ordered as the calendar is); NaT is -1.
NaT == -1

\* pd.to_datetime(date object)
Timestamp(d) == d[1] * 10000 + d[2] * 100 + d[3]

\* pd.to_datetime(str, errors="coerce") on the cell texts of this model: an ISO
\* date gives its Timestamp, any other text gives NaT.
ToDatetime(s) ==
    IF /\ Len(s) = 10
       /\ s[5] = "-" /\ s[8] = "-"
       /\ AllDigits(SubSeq(s, 1, 4)) /\ AllDigits(SubSeq(s, 6, 7))
       /\ AllDigits(SubSeq(s, 9, 10))
    THEN LET y == StrToNat(SubSeq(s, 1, 4))
             m == StrToNat(SubSeq(s, 6, 7))
             d == StrToNat(SubSeq(s, 9, 10))
         IN  IF y >= 1 /\ m \in 1..12 /\ d >= 1 /\ d <= DaysInMonth(y, m)
             THEN Timestamp(<<y, m, d>>)
             ELSE NaT
    ELSE NaT

\* Variant: int(amount) in place of float(amount) drops the fraction.
FloatMut(amount) == (amount \div 100) * 100

\* float(amount): the number is unchanged; amounts are counted in hundredths.
Float(amount) == amount

\* The text a worksheet cell holding the number a >= 0 reads back as:
\* 150000 -> "1500", 1250 -> "12.5", 1205 -> "12.05".
FormatNumber(a) ==
    LET whole == NatToStr(a \div 100)
        frac == a % 100
    IN  IF frac = 0 THEN whole
        ELSE IF frac % 10 = 0 THEN whole \o <<".", Digits[(frac \div 10) + 1]>>
        ELSE whole \o <<".", Digits[(frac \div 10) + 1], Digits[(frac % 10) + 1]>>

\* Position of the first "." of s, or 0.
DotPos(s) ==
    IF \E i \in 1..Len(s) : s[i] = "."
    THEN CHOOSE i \in 1..Len(s) : s[i] = "." /\ \A j \in 1..(i - 1) : s[j] # "."
    ELSE 0

\* Value in hundredths of the fraction digits f (digits past the second dropped).
FracVal(f) ==
    IF Len(f) = 0 THEN 0
    ELSE IF Len(f) = 1 THEN 10 * DigitVal(f[1])
    ELSE 10 * DigitVal(f[1]) + DigitVal(f[2])

\* Unsigned decimal literal: digits, optionally "." and digits, one digit at least.
ParseUnsigned(s) ==
    LET p == DotPos(s)
        w == IF p = 0 THEN s ELSE SubSeq(s, 1, p - 1)
        f == IF p = 0 THEN <<>> ELSE SubSeq(s, p + 1, Len(s))
    IN  IF AllDigits(w) /\ AllDigits(f) /\ Len(w) + Len(f) > 0
        THEN [ok |-> TRUE, v |-> 100 * StrToNat(w) + FracVal(f)]
        ELSE [ok |-> FALSE, v |-> 0]

\* pd.to_numeric(str, errors="coerce"): ok = FALSE stands for NaN.
ToNumeric(s) ==
    IF Len(s) > 0 /\ s[1] = "-"
    THEN LET r == ParseUnsigned(Tail(s)) IN [ok |-> r.ok, v |-> 0 - r.v]
    ELSE ParseUnsigned(s)

\* .fillna(0.0)
FillNa(n) == IF n.ok THEN n.v ELSE 0

(* ----------------------------- worksheet ------------------------------ *)

\* The worksheet is a sequence of rows, a row a sequence of cell texts, kept
\* without trailing empty cells and without trailing empty rows (the values the
\* Sheets API reports).

RECURSIVE TrimRow(_)
TrimRow(row) ==
    IF Len(row) > 0 /\ row[Len(row)] = EmptyStr
    THEN TrimRow(SubSeq(row, 1, Len(row) - 1))
    ELSE row

RECURSIVE TrimRows(_)
TrimRows(rows) ==
    IF Len(rows) > 0 /\ rows[Len(rows)] = <<>>
    THEN TrimRows(SubSeq(rows, 1, Len(rows) - 1))
    ELSE rows

Max(S) == CHOOSE x \in S : \A y \in S : y <= x

PadTo(row, width) == row \o [i \in 1..(width - Len(row)) |-> EmptyStr]

\* ws.get_all_values(): every occupied row, padded to a rectangle.
GetAllValues(ws) ==
    IF ws = <<>> THEN <<>>
    ELSE LET width == Max({Len(ws[i]) : i \in 1..Len(ws)})
         IN  [i \in 1..Len(ws) |-> PadTo(ws[i], width)]

\* ws.update("A{n}:G{n}", [cells]): writes the cells into columns A.. of row n
\* and leaves every other cell alone.
Update(ws, n, cells) ==
    LET grown == ws \o [i \in 1..(n - Len(ws)) |-> <<>>]
        old == grown[n]
        rest == IF Len(old) > Len(cells) THEN SubSeq(old, Len(cells) + 1, Len(old))
                ELSE <<>>
    IN  TrimRows([grown EXCEPT ![n] = TrimRow(cells \o rest)])

(* --------------------------- get_worksheet ---------------------------- *)

\* The body of get_worksheet: both branches force the header into A1:G1.
get_worksheet(ws) ==
    IF GetAllValues(ws) = <<>>
    THEN Update(ws, 1, COLUMNS)
    ELSE Update(ws, 1, COLUMNS)

\* @st.cache_resource: the body runs on the first call of the process only.
CachedWorksheet(ws, isCached) == IF isCached THEN ws ELSE get_worksheet(ws)

(* ---------------------------- add_expense ----------------------------- *)

\* x or ""
OrEmpty(x) == IF x = None \/ x = EmptyStr THEN EmptyStr ELSE x

\* The row add_expense builds, as the cell texts it reads back as.
BuildRow(date_val, category, desc, amount, payment_method, frequency, notes) ==
    << DateStr(date_val), category, OrEmpty(desc), FormatNumber(Float(amount)),
       payment_method, frequency, OrEmpty(notes) >>

\* Variant: next_row = len(values), the last occupied row.
NextRowMut(values) == IF values = <<>> THEN 2 ELSE Len(values)

\* next_row, from the values add_expense read.
NextRow(values) == IF values = <<>> THEN 2 ELSE Len(values) + 1

\* The writes of add_expense, given the values it read: the header when it read
\* nothing, then the row at next_row.
WriteExpense(ws, values, row) ==
    LET ws1 == IF values = <<>> THEN Update(ws, 1, COLUMNS) ELSE ws
    IN  Update(ws1, NextRow(values), row)

\* add_expense after get_worksheet() returned ws, run without interruption.
add_expense(ws, date_val, category, desc, amount, payment_method, frequency, notes) ==
    WriteExpense(ws, GetAllValues(ws),
        BuildRow(date_val, category, desc, amount, payment_method, frequency, notes))

\* Number of ws.update calls add_expense makes on ws.
AddUpdates(ws) == IF GetAllValues(ws) = <<>> THEN 2 ELSE 1

(* ---------------------------- get_expenses ---------------------------- *)

\* if not values or len(values) == 1: return an empty frame
NothingInSheet(values) == values = <<>> \/ Len(values) = 1

NormalizedHeader(header) == [i \in 1..Len(header) |-> StrLower(StrStrip(header[i]))]

\* A wrong header makes every row a data row.
DataRows(values) ==
    IF NormalizedHeader(values[1]) # COLUMNS THEN values ELSE Tail(values)

\* Pad a short row with "", cut a long one.
NormalizeRow(row) ==
    IF Len(row) < Len(COLUMNS)
    THEN row \o [i \in 1..(Len(COLUMNS) - Len(row)) |-> EmptyStr]
    ELSE SubSeq(row, 1, Len(COLUMNS))

NormalizedRows(data_rows) == [i \in 1..Len(data_rows) |-> NormalizeRow(data_rows[i])]

\* pd.DataFrame(rows, columns=COLUMNS) raises unless the widest row has
\* len(COLUMNS) cells.
FrameError(rows) ==
    rows # <<>> /\ Max({Len(rows[i]) : i \in 1..Len(rows)}) # Len(COLUMNS)

\* A frame is a sequence of [idx, row]: idx is the pandas index (the position in
\* data_rows, from 0), row the seven column values.
DataFrame(rows) ==
    [i \in 1..Len(rows) |-> [idx |-> i - 1, row |-> PadTo(rows[i], Len(COLUMNS))]]

\* Column 1 to Timestamp, column 4 to number (NaN filled with 0).
Typed(df) ==
    [i \in 1..Len(df) |->
        [df[i] EXCEPT !.row = [@ EXCEPT ![1] = ToDatetime(@),
                                        ![4] = FillNa(ToNumeric(@))]]]

RECURSIVE Select(_, _)
\* df[mask]: the rows whose position is in keep, in order.
Select(df, keep) ==
    IF df = <<>> THEN <<>>
    ELSE LET n == Len(df)
             front == Select(SubSeq(df, 1, n - 1), keep)
         IN  IF n \in keep THEN Append(front, df[n]) ELSE front

DropNa(df) == Select(df, {i \in 1..Len(df) : df[i].row[1] # NaT})

FromStart(df, start_date) ==
    IF start_date # None
    THEN Select(df, {i \in 1..Len(df) : df[i].row[1] >= Timestamp(start_date)})
    ELSE df

ToEnd(df, end_date) ==
    IF end_date # None
    THEN Select(df, {i \in 1..Len(df) : df[i].row[1] <= Timestamp(end_date)})
    ELSE df

ByCategory(df, category) ==
    IF category # None /\ category # EmptyStr /\ category # S_All
    THEN Select(df, {i \in 1..Len(df) : df[i].row[2] = category})
    ELSE df

Permutations(n) ==
    {f \in [1..n -> 1..n] : \A i, j \in 1..n : i # j => f[i] # f[j]}

\* Variant: the frame is returned unsorted.
SortValuesMut(df) == {df}

\* df.sort_values(by="date", ascending=False): the default sort is not stable,
\* so every arrangement with the dates descending is a possible outcome.
SortValues(df) ==
    { [i \in 1..Len(df) |-> df[p[i]]] :
        p \in {q \in Permutations(Len(df)) :
                 \A i \in 1..(Len(df) - 1) : df[q[i]].row[1] >= df[q[i + 1]].row[1]} }

\* The frames get_expenses can return once get_worksheet() returned ws.
get_expenses(ws, start_date, end_date, category) ==
    LET values == GetAllValues(ws)
    IN  IF NothingInSheet(values) THEN {<<>>}
        ELSE LET rows == NormalizedRows(DataRows(values))
             IN  IF rows = <<>> THEN {<<>>}
                 ELSE SortValues(
                        ByCategory(
                          ToEnd(FromStart(DropNa(Typed(DataFrame(rows))), start_date),
                                end_date),
                          category))

\* Whether get_expenses raises instead of returning.
get_expenses_raises(ws) ==
    LET values == GetAllValues(ws)
    IN  ~NothingInSheet(values) /\ FrameError(NormalizedRows(DataRows(values)))

(* ------------------------------ inputs -------------------------------- *)

D_Jan05 == <<2024, 1, 5>>
D_Jan20 == <<2024, 1, 20>>
D_Feb01 == <<2024, 2, 1>>

Form(d, c, desc, a, pm, fr, n) ==
    [exp_date |-> d, category |-> c, description |-> desc, amount |-> a,
     payment_method |-> pm, frequency |-> fr, notes |-> n]

\* The form as the page first shows it: amount 0.0, empty texts.
DefaultForm == Form(D_Jan20, S_Protein, EmptyStr, 0, S_UPI, S_OneTime, EmptyStr)

\* What the user may submit: amounts are >= 0 (min_value=0.0).
Forms ==
    { Form(D_Jan05, S_Other, S_Whey, 150000, S_UPI, S_OneTime, EmptyStr),
      Form(D_Jan20, S_Protein, None, 1250, S_Cash, S_Monthly, None),
      Form(D_Feb01, S_Protein, EmptyStr, 1205, S_UPI, S_Monthly, S_ok),
      DefaultForm }

\* The filters of a query: a bound is a date or None, the category a selectbox
\* value or None.
StartDates == {None, D_Jan20}
EndDates == {None, D_Jan20}
Categories == {None, S_All, S_Protein}

NoQuery == [start_date |-> None, end_date |-> None, category |-> None]

(* ------------------------------- state -------------------------------- *)

VARIABLES
    sheet,      \* the worksheet: its occupied rows
    cached,     \* whether st.cache_resource holds the worksheet handle
    form,       \* the Add Expense form as last submitted
    message,    \* what Save Expense last reported: "none", "success", "error"
    updates,    \* number of ws.update calls the last operation made
    lastOp,     \* the last operation: "none", "save", "get", "restart", "edit"
    query,      \* the arguments of the last get_expenses call
    result,     \* the frame the last get_expenses call returned
    raised,     \* whether the last get_expenses call raised
    sess        \* per session, an add_expense call in progress

vars == <<sheet, cached, form, message, updates, lastOp, query, result, raised, sess>>

Sessions == {1, 2}

IdleSession == [pc |-> "idle", values |-> <<>>, row |-> <<>>]

view == <<form, message, updates, lastOp, query, result, raised>>

Init ==
    /\ sheet = <<>>
    /\ cached = FALSE
    /\ form = DefaultForm
    /\ message = "none"
    /\ updates = 0
    /\ lastOp = "none"
    /\ query = NoQuery
    /\ result = <<>>
    /\ raised = FALSE
    /\ sess = [s \in Sessions |-> IdleSession]

(* ------------------------------ actions ------------------------------- *)

\* Variant: amount >= 0 in place of amount > 0.
AmountOkMut(amount) == amount >= 0

\* if amount > 0
AmountOk(amount) == amount > 0

\* The "Save Expense" button of main with the form f.
SaveExpense(f) ==
    /\ AmountOk(f.amount) => Len(sheet) < MaxRows
    /\ form' = f
    /\ lastOp' = "save"
    /\ IF AmountOk(f.amount)
       THEN LET ws == CachedWorksheet(sheet, cached)
            IN  /\ sheet' = add_expense(ws, f.exp_date, f.category, f.description,
                                        f.amount, f.payment_method, f.frequency,
                                        f.notes)
                /\ cached' = TRUE
                /\ updates' = (IF cached THEN 0 ELSE 1) + AddUpdates(ws)
                /\ message' = "success"
       ELSE /\ message' = "error"
            /\ updates' = 0
            /\ UNCHANGED <<sheet, cached>>
    /\ query' = NoQuery
    /\ result' = <<>>
    /\ raised' = FALSE
    /\ UNCHANGED sess

\* get_expenses(start_date, end_date, category): the View Expenses page passes
\* all three, the Dashboard none.
GetExpenses(start_date, end_date, category) ==
    LET ws == CachedWorksheet(sheet, cached)
    IN  /\ sheet' = ws
        /\ cached' = TRUE
        /\ updates' = IF cached THEN 0 ELSE 1
        /\ lastOp' = "get"
        /\ query' = [start_date |-> start_date, end_date |-> end_date,
                     category |-> category]
        /\ IF get_expenses_raises(ws)
           THEN raised' = TRUE /\ result' = <<>>
           ELSE raised' = FALSE
                /\ result' \in get_expenses(ws, start_date, end_date, category)
        /\ UNCHANGED <<form, message, sess>>

\* The process restarts: the cached worksheet handle is gone, the sheet stays.
Restart ==
    /\ cached
    /\ cached' = FALSE
    /\ lastOp' = "restart"
    /\ updates' = 0
    /\ form' = DefaultForm
    /\ message' = "none"
    /\ query' = NoQuery
    /\ result' = <<>>
    /\ raised' = FALSE
    /\ UNCHANGED <<sheet, sess>>

Next ==
    \/ \E f \in Forms : SaveExpense(f)
    \/ \E s \in StartDates, e \in EndDates, c \in Categories : GetExpenses(s, e, c)
    \/ Restart

Spec == Init /\ [][Next]_vars

(* ------------------- the sheet edited outside the app ------------------ *)

\* Rows a person may type into the spreadsheet (trailing empty cells are not
\* stored): a header in another spelling, a row without notes, a row with an
\* extra cell, a row with a bad amount that stops after it, a row with a bad date.
R_header ==
    << <<" ","D","a","t","e">>, <<"C","A","T","E","G","O","R","Y">>, S_description,
       <<"A","m","o","u","n","t"," ">>, S_payment_method, S_frequency,
       <<"N","o","t","e","s">> >>
R_noNotes ==
    << DateStr(D_Jan05), S_Protein, S_Whey, <<"1","5","0","0">>, S_UPI, S_OneTime >>
R_extraCell ==
    << DateStr(D_Feb01), S_Other, EmptyStr, <<"1","2",".","5">>, S_Cash, S_Monthly,
       S_ok, <<"x">> >>
R_badAmount == << DateStr(D_Jan20), S_Protein, S_Whey, <<"a","b","c">> >>
R_badDate ==
    << <<"n","/","a">>, S_Other, S_Whey, <<"7">>, S_Cash, S_Monthly, S_ok >>

TypedRows == {R_header, R_noNotes, R_extraCell, R_badAmount, R_badDate}

ResetView ==
    /\ updates' = 0
    /\ query' = NoQuery
    /\ result' = <<>>
    /\ raised' = FALSE

\* Someone types the row r into row i of the spreadsheet (i is an occupied row
\* or the first free one).
EditRow(i, r) ==
    /\ i \in 1..(Len(sheet) + 1)
    /\ i <= MaxRows
    /\ sheet' = IF i <= Len(sheet) THEN [sheet EXCEPT ![i] = r] ELSE Append(sheet, r)
    /\ lastOp' = "edit"
    /\ ResetView
    /\ UNCHANGED <<cached, form, message, sess>>

\* Someone deletes row i of the spreadsheet: the rows below move up.
DeleteRow(i) ==
    /\ i \in 1..Len(sheet)
    /\ sheet' = SubSeq(sheet, 1, i - 1) \o SubSeq(sheet, i + 1, Len(sheet))
    /\ lastOp' = "edit"
    /\ ResetView
    /\ UNCHANGED <<cached, form, message, sess>>

NextEdit ==
    \/ \E s \in StartDates, e \in EndDates, c \in Categories : GetExpenses(s, e, c)
    \/ Restart
    \/ \E i \in 1..MaxRows, r \in TypedRows : EditRow(i, r)
    \/ \E i \in 1..MaxRows : DeleteRow(i)

\* The app reading a spreadsheet that people also edit by hand.
SpecEdit == Init /\ [][NextEdit]_vars

(* ------------------------- concurrent sessions ------------------------ *)

\* Session s enters add_expense(f...): get_worksheet(), then the read
\* values = ws.get_all_values(), and the row is built.
AddRead(s, f) ==
    /\ sess[s].pc # "read"
    /\ Len(sheet) + Cardinality({t \in Sessions : sess[t].pc = "read"}) < MaxRows
    /\ sheet' = CachedWorksheet(sheet, cached)
    /\ cached' = TRUE
    /\ sess' = [sess EXCEPT ![s] =
                  [pc |-> "read",
                   values |-> GetAllValues(sheet'),
                   row |-> BuildRow(f.exp_date, f.category, f.description, f.amount,
                                    f.payment_method, f.frequency, f.notes)]]
    /\ UNCHANGED view

\* Session s performs the write of add_expense with the values it read.
AddWrite(s) ==
    /\ sess[s].pc = "read"
    /\ sheet' = WriteExpense(sheet, sess[s].values, sess[s].row)
    /\ sess' = [sess EXCEPT ![s].pc = "done"]
    /\ UNCHANGED <<cached, view>>

NextConc ==
    \/ \E s \in Sessions, f \in {g \in Forms : AmountOk(g.amount)} : AddRead(s, f)
    \/ \E s \in Sessions : AddWrite(s)

\* Two sessions of the app calling add_expense, the read and the write of a
\* call being separate requests to the Sheets API.
SpecConc == Init /\ [][NextConc]_vars

(* --------------------- reading the store directly --------------------- *)

\* Cell k of a stored row, empty when the row is shorter.
CellAt(r, k) == IF k <= Len(r) THEN r[k] ELSE EmptyStr

\* A stored row read as the seven columns: date parsed, amount parsed or 0.
Reading(r) ==
    << ToDatetime(CellAt(r, 1)), CellAt(r, 2), CellAt(r, 3),
       FillNa(ToNumeric(CellAt(r, 4))), CellAt(r, 5), CellAt(r, 6), CellAt(r, 7) >>

\* The rows of the last returned frame.
Returned == [i \in 1..Len(result) |-> result[i].row]

Range(q) == {q[i] : i \in 1..Len(q)}

Count(x, q) == Cardinality({i \in 1..Len(q) : q[i] = x})

\* The same rows, the same number of times each, in any order.
SameRows(q1, q2) ==
    /\ Len(q1) = Len(q2)
    /\ \A x \in Range(q1) \cup Range(q2) : Count(x, q1) = Count(x, q2)

InRange(t, q) ==
    /\ q.start_date = None \/ Timestamp(q.start_date) <= t
    /\ q.end_date = None \/ t <= Timestamp(q.end_date)

\* Every stored row with a parseable date inside the bounds of q, in sheet order.
StoredInRange(ws, q) ==
    Select([i \in 1..Len(ws) |-> Reading(ws[i])],
           {i \in 1..Len(ws) : Reading(ws[i])[1] # NaT /\ InRange(Reading(ws[i])[1], q)})

OfCategory(rows, c) == Select(rows, {i \in 1..Len(rows) : rows[i][2] = c})

\* The data rows of a sheet the app wrote: everything below the header.
DataCount(ws) == IF Len(ws) = 0 THEN 0 ELSE Len(ws) - 1

(* ------------------------------- claims ------------------------------- *)

\* Whether the filters of q let the submitted form f through.
Covers(q, f) ==
    /\ InRange(Timestamp(f.exp_date), q)
    /\ q.category \in {None, S_All, f.category}

\* Whether the returned row is the submitted form f.
IsRecord(row, f) ==
    /\ row[1] = Timestamp(f.exp_date)
    /\ row[2] = f.category
    /\ row[3] = (IF f.description = None THEN EmptyStr ELSE f.description)
    /\ row[4] = f.amount
    /\ row[5] = f.payment_method
    /\ row[6] = f.frequency
    /\ row[7] = (IF f.notes = None THEN EmptyStr ELSE f.notes)

\* C1: after a record with amount > 0 is saved, a query whose filters let it
\* through returns a row with the written category, payment method, frequency,
\* description, notes (missing ones as "") and amount; when the store held only
\* the header before, the query returns exactly that one row.
C1_RoundTrip ==
    (lastOp = "get" /\ message = "success" /\ form.amount > 0 /\ Covers(query, form))
    => /\ ~raised
       /\ \E i \in 1..Len(result) : IsRecord(result[i].row, form)
       /\ Len(sheet) = 2 => Len(result) = 1

C1_Witness ==
    /\ lastOp = "get" /\ message = "success" /\ form.amount % 100 # 0
    /\ form.description = None
    /\ query.start_date # None /\ query.category = form.category
    /\ Len(sheet) = 3
    /\ \E i \in 1..Len(result) : IsRecord(result[i].row, form)

\* C2: saving an amount <= 0 reports a validation error, makes no write to the
\* worksheet and leaves the stored rows as they were.
C2_Rejected ==
    [][(lastOp' = "save" /\ form'.amount <= 0)
         => (message' = "error" /\ updates' = 0 /\ sheet' = sheet)]_vars

C2_Witness ==
    lastOp = "save" /\ form.amount = 0 /\ message = "error" /\ Len(sheet) >= 2

\* C3: get_expenses(start, end) returns exactly the stored rows with a parseable
\* date d such that start <= d <= end, a bound that is omitted not being applied.
C3_DateRange ==
    (lastOp = "get" /\ query.category = None)
    => (~raised /\ SameRows(Returned, StoredInRange(sheet, query)))

\* C4: category "All" returns the rows of the query without a category; another
\* category c returns only rows whose category is c, and every stored row with a
\* parseable date in range whose category is c.
C4_CategoryFilter ==
    (lastOp = "get" /\ ~raised /\ query.category # None)
    => IF query.category = S_All
       THEN \E r \in get_expenses(sheet, query.start_date, query.end_date, None) :
               SameRows(Returned, [i \in 1..Len(r) |-> r[i].row])
       ELSE /\ \A i \in 1..Len(result) : result[i].row[2] = query.category
            /\ SameRows(Returned,
                        OfCategory(StoredInRange(sheet, query), query.category))

\* C5: the returned rows are in date order, latest first.
C5_Descending ==
    lastOp = "get"
    => \A i \in 1..(Len(result) - 1) : result[i].row[1] >= result[i + 1].row[1]

C5_Witness ==
    /\ lastOp = "get" /\ Len(result) >= 2
    /\ result[1].idx > result[2].idx
    /\ result[1].row[1] > result[2].row[1]

\* C6: no operation changes or removes a stored data row; a successful save
\* adds exactly one data row, after the last occupied row; a query changes no
\* row.
C6_Immutable ==
    [][ /\ \A i \in 1..Len(sheet) : i <= Len(sheet') /\ sheet'[i] = sheet[i]
        /\ (lastOp' = "save" /\ message' = "success")
              => DataCount(sheet') = DataCount(sheet) + 1
        /\ lastOp' = "get" => DataCount(sheet') = DataCount(sheet) ]_vars

C6_Witness ==
    lastOp = "get" /\ Len(sheet) = 3 /\ Len(result) = 2 /\ message = "success"

\* C7: a query never raises; every returned row has seven columns and a parsed
\* date; a stored row with a parseable date and an unparseable amount is
\* returned by the unfiltered query with amount 0.
C7_Malformed ==
    lastOp = "get"
    => /\ ~raised
       /\ \A i \in 1..Len(result) :
             Len(result[i].row) = Len(COLUMNS) /\ result[i].row[1] # NaT
       /\ query = NoQuery
             => \A i \in 1..Len(sheet) :
                   (ToDatetime(CellAt(sheet[i], 1)) # NaT
                      /\ ~ToNumeric(CellAt(sheet[i], 4)).ok)
                   => (Reading(sheet[i])[4] = 0
                         /\ Reading(sheet[i]) \in Range(Returned))

\* C8: once two concurrent add_expense calls have both finished, both records
\* are in the store.
C8_BothPresent ==
    (\A s \in Sessions : sess[s].pc = "done")
    => \A s \in Sessions :
          \E i \in 1..Len(sheet) : sheet[i] = TrimRow(sess[s].row)

\* C9: when the first stored row is not the header, the unfiltered query returns
\* every stored row with a parseable date, the first row included, also when the
\* store has one row.
C9_HeaderlessRows ==
    (lastOp = "get" /\ ~raised /\ query = NoQuery /\ sheet # <<>>
        /\ NormalizedHeader(GetAllValues(sheet)[1]) # COLUMNS)
    => SameRows(Returned, StoredInRange(sheet, NoQuery))

\* C10: the first get_worksheet of a process leaves the header in row 1 and
\* every expense row that was in the store, row 1 included, still in the store.
C10_Bootstrap ==
    [][(~cached /\ cached')
         => /\ sheet'[1] = COLUMNS
            /\ \A i \in 1..Len(sheet) :
                  ToDatetime(CellAt(sheet[i], 1)) # NaT
                  => \E j \in 1..Len(sheet') : sheet'[j] = sheet[i]]_vars

=============================================================================
